---- MODULE Spec2Model ----
(***************************************************************************)
(* Model of update-resource-metadata/__init__.py: an Event Grid handler    *)
(* that tags a newly created Azure resource with the identity of the       *)
(* actor that created it.                                                  *)
(*                                                                         *)
(* Strings that the code splits, joins or searches (resource paths, error  *)
(* messages, api versions) are sequences of atoms: an atom is an           *)
(* indivisible run of characters, and each separator the code uses ("/",   *)
(* ",", the api-versions marker) is one atom.  The empty string is <<>>.   *)
(* Plain values (claim values, tag values) are TLA+ strings, with None     *)
(* standing for Python's None and "" for the empty string.                 *)
(***************************************************************************)
EXTENDS Integers, Sequences, FiniteSets, TLC

VARIABLES
    pc,             \* per invocation slot: "idle", "lookup", "write", "done"
    event,          \* the event the slot's invocation of main was given
    id,             \* main's local id (line 21)
    email,          \* main's local email (line 21)
    resource,       \* main's local resource (line 21); Unbound before it is assigned
    api_version,    \* call_until_valid_api's parameter api_version
    requests,       \* api versions of the resources.get calls made by this invocation
    azure_resource, \* assign_owner's local azure_resource (line 72)
    callResult,     \* how call_until_valid_api ended: "pending", "returned", "raised"
    written,        \* create_or_update_at_scope calls made by this invocation
    outcome,        \* how main ended: "none", "ok", "ignored", "caught", "escaped"
    store,          \* the tags of every existing resource, as the cloud holds them
    writeLog,       \* every create_or_update_at_scope call, in order
    invocations     \* number of invocations started so far

vars == <<pc, event, id, email, resource, api_version, requests, azure_resource,
          callResult, written, outcome, store, writeLog, invocations>>

-----------------------------------------------------------------------------
(* Bounds *)

\* Invocations of main the host starts in one behaviour.
MaxInvocations == 2

\* resources.get calls one invocation may issue before the model stops it.
MaxLookups == 3

\* Invocation slots of the host.
Procs == {1, 2}

-----------------------------------------------------------------------------
(* Python values *)

None == "None"

\* Python truthiness of an optional plain string.
Truthy(x) == x # None /\ x # ""

\* Optional atom-sequence strings.
Unbound == [k |-> "unbound", s |-> <<>>]
NoneS == [k |-> "none", s |-> <<>>]
Str(s) == [k |-> "str", s |-> s]

\* Python truthiness of an optional atom-sequence string.
TruthyS(x) == x.k = "str" /\ x.s # <<>>

\* Dictionaries of plain strings are sets of <<key, value>> pairs.
Has(d, key) == \E e \in d : e[1] = key
Get(d, key) == (CHOOSE e \in d : e[1] = key)[2]

\* An optional dictionary (the tags attribute of a resource).
NoDict == [k |-> "none", d |-> {}]
Dict(d) == [k |-> "dict", d |-> d]

\* Python truthiness of an optional dictionary.
TruthyD(t) == t.k = "dict" /\ t.d # {}

\* The result of a lookup: None or a resource object with its tags.
NoResource == [k |-> "none", tags |-> NoDict]
Resource(t) == [k |-> "res", tags |-> t]

-----------------------------------------------------------------------------
(* str.split, str.join, slicing and the in operator on atom sequences *)

FirstIndex(s, sep) == CHOOSE i \in 1..Len(s) : s[i] = sep /\ \A j \in 1..(i-1) : s[j] # sep

RECURSIVE Split(_, _)
Split(s, sep) ==
    IF \E i \in 1..Len(s) : s[i] = sep
    THEN LET i == FirstIndex(s, sep)
         IN  <<SubSeq(s, 1, i-1)>> \o Split(SubSeq(s, i+1, Len(s)), sep)
    ELSE <<s>>

RECURSIVE Join(_, _)
Join(parts, sep) ==
    IF Len(parts) = 0 THEN <<>>
    ELSE IF Len(parts) = 1 THEN parts[1]
    ELSE parts[1] \o <<sep>> \o Join(Tail(parts), sep)

\* parts[:n]
Take(parts, n) == SubSeq(parts, 1, IF n < Len(parts) THEN n ELSE Len(parts))

\* sub in s
Contains(s, sub) ==
    \E i \in 0..(Len(s) - Len(sub)) : SubSeq(s, i+1, i+Len(sub)) = sub

\* parts[i] with Python's 0-based index; HasIdx is false where it raises IndexError.
HasIdx(parts, i) == i < Len(parts)
Idx(parts, i) == parts[i+1]

-----------------------------------------------------------------------------
(* Constants of the code *)

IGNORED_RESOURCES ==
    { <<"Microsoft.Resources", "/", "deployments">>,
      <<"Microsoft.Resources", "/", "tags">> }

EMAIL_CLAIM_KEY == "http://schemas.xmlsoap.org/ws/2005/05/identity/claims/name"
ID_CLAIM_KEY == "http://schemas.microsoft.com/identity/claims/objectidentifier"
USER_ID_TAG_NAME == "owner_id"
EMAIL_TAG_NAME == "owner_email"
API_VERSION == <<"2021-04-01">>
VERSIONS_MARKER == "The supported api-versions are '"

-----------------------------------------------------------------------------
(* Pure functions of the code *)

\* "/".join(path.split("/")[:9])
extract_resource_path(path) == Join(Take(Split(path, "/"), 9), "/")

\* path.split("/")[2]; SubscriptionRaises is where it raises IndexError.
SubscriptionRaises(path) == ~HasIdx(Split(path, "/"), 2)
extract_subscription_id(path) == Idx(Split(path, "/"), 2)

\* message.split(marker)[1] then .split(",")[0]; VersionRaises is the IndexError.
VersionRaises(message) == ~HasIdx(Split(message, VERSIONS_MARKER), 1)
extract_version_from_error_message(message) ==
    Idx(Split(Idx(Split(message, VERSIONS_MARKER), 1), ","), 0)

-----------------------------------------------------------------------------
(* Events *)

\* An event body.  kind is "invalid" when event.get_json() raises (the body
\* is no JSON), "null" when the body is the JSON value null, "dict" when it
\* is a JSON object; claims and uri are the values under "claims" and
\* "resourceUri" where hasClaims and hasUri say the keys are present.
EventOf(kind, hasClaims, claims, hasUri, uri) ==
    [kind |-> kind, hasClaims |-> hasClaims, claims |-> claims,
     hasUri |-> hasUri, uri |-> uri]

NoEvent == EventOf("none", FALSE, {}, FALSE, <<>>)

Path(segments) == Join(segments, "/")

VmPath(name) ==
    Path(<< <<>>, <<"subscriptions">>, <<"S">>, <<"resourceGroups">>, <<"G">>,
            <<"providers">>, <<"Microsoft.Compute">>, <<"virtualMachines">>, <<name>> >>)

\* A tag-write audit event names the tagged resource's tags sub-resource.
TagsOfVmPath(name) ==
    VmPath(name) \o <<"/", "providers", "/", "Microsoft.Resources", "/", "tags", "/", "default">>

DeploymentPath ==
    Path(<< <<>>, <<"subscriptions">>, <<"S">>, <<"resourceGroups">>, <<"G">>,
            <<"providers">>, <<"Microsoft.Resources">>, <<"deployments">>, <<"D1">> >>)

SubscriptionTagsPath ==
    Path(<< <<>>, <<"subscriptions">>, <<"S">>, <<"providers">>,
            <<"Microsoft.Resources">>, <<"tags">>, <<"default">> >>)

ResourceGroupPath ==
    Path(<< <<>>, <<"subscriptions">>, <<"S">>, <<"resourceGroups">>, <<"G">> >>)

Uris ==
    { VmPath("VM1"), VmPath("VM1") \o <<"/", "extra">>, TagsOfVmPath("VM1"),
      VmPath("VM2"), DeploymentPath, SubscriptionTagsPath, ResourceGroupPath, <<>> }

IdClaims == {"u1", "u2"}
EmailClaims == {"", "a@x"}

\* The claims maps: each of the two claim keys present or not.
ClaimMaps ==
    { i \cup e : i \in {{}} \cup { {<<ID_CLAIM_KEY, v>>} : v \in IdClaims },
                 e \in {{}} \cup { {<<EMAIL_CLAIM_KEY, v>>} : v \in EmailClaims } }

\* The claims of an actor with both claim keys.
FullClaims == { <<ID_CLAIM_KEY, "u1">>, <<EMAIL_CLAIM_KEY, "a@x">> }

\* JSON-object events: every claims map about resource VM1, every uri with
\* one claims map, and events that lack claims, resourceUri or both.
DictEvents ==
    { EventOf("dict", TRUE, c, TRUE, VmPath("VM1")) : c \in ClaimMaps }
    \cup { EventOf("dict", TRUE, FullClaims, TRUE, u) : u \in Uris }
    \cup { EventOf("dict", TRUE, c, FALSE, <<>>) :
             c \in { {}, FullClaims, {<<ID_CLAIM_KEY, "u2">>} } }
    \cup { EventOf("dict", FALSE, {}, TRUE, u) : u \in {VmPath("VM1"), VmPath("VM2"), <<>>} }
    \cup { EventOf("dict", FALSE, {}, FALSE, <<>>) }

Events ==
    DictEvents \cup { EventOf("invalid", FALSE, {}, FALSE, <<>>),
                      EventOf("null", FALSE, {}, FALSE, <<>>) }

\* Events of concurrent invocations: events of identified actors about VM1.
RaceEvents ==
    { ev \in DictEvents :
        /\ ev.hasClaims /\ Has(ev.claims, ID_CLAIM_KEY)
        /\ ~Has(ev.claims, EMAIL_CLAIM_KEY) \/ Truthy(Get(ev.claims, EMAIL_CLAIM_KEY))
        /\ ev.hasUri /\ ev.uri = VmPath("VM1") }

-----------------------------------------------------------------------------
(* main up to the first call of the resource API *)

\* event.get_json() raises on a body that is no JSON.
GetJsonRaises(ev) == ev.kind = "invalid"

\* extract_metadata reading json[CLAIMS_KEY], the two claims and
\* json[RESOURCE_KEY] without testing for the keys: KeyError where one is absent.
extract_metadata_Unguarded(json) ==
    IF \/ json.kind # "dict" \/ ~json.hasClaims \/ ~json.hasUri
       \/ ~Has(json.claims, ID_CLAIM_KEY) \/ ~Has(json.claims, EMAIL_CLAIM_KEY)
    THEN [raised |-> TRUE, id |-> None, email |-> None, resource |-> NoneS]
    ELSE [raised |-> FALSE, id |-> Get(json.claims, ID_CLAIM_KEY),
          email |-> Get(json.claims, EMAIL_CLAIM_KEY),
          resource |-> Str(extract_resource_path(json.uri))]

\* extract_metadata(json): the three values it returns; raised is TRUE where
\* the in operator is applied to a body that is no container (TypeError).
extract_metadata(json) ==
    IF json.kind # "dict"
    THEN [raised |-> TRUE, id |-> None, email |-> None, resource |-> NoneS]
    ELSE [raised |-> FALSE,
          id |-> IF json.hasClaims /\ Has(json.claims, ID_CLAIM_KEY)
                 THEN Get(json.claims, ID_CLAIM_KEY) ELSE None,
          email |-> IF json.hasClaims /\ Has(json.claims, EMAIL_CLAIM_KEY)
                    THEN Get(json.claims, EMAIL_CLAIM_KEY) ELSE None,
          resource |-> IF json.hasUri THEN Str(extract_resource_path(json.uri))
                       ELSE NoneS]

\* The filter comparing with == instead of in.
IsIgnored_Exact(res) == res \in IGNORED_RESOURCES

\* any([ignored_resource in resource for ...]) on a string resource.
IsIgnored(res) == \E ignored_resource \in IGNORED_RESOURCES : Contains(res, ignored_resource)

\* The except clause of main: the log line reads the local resource, which
\* is unbound when the exception came before line 21 assigned it.
ExceptOutcome(res) == IF res.k = "unbound" THEN "escaped" ELSE "caught"

\* assign_owner's slicing of the path: path[2], path[4], path[6], path[7], path[8].
PathRaises(res) == SubscriptionRaises(res) \/ ~HasIdx(Split(res, "/"), 8)

\* What the lookup is keyed by: subscription, resource group, type, name.
ResourceKey(res) ==
    LET path == Split(res, "/")
    IN  << extract_subscription_id(res), Idx(path, 4),
           Idx(path, 6) \o <<"/">> \o Idx(path, 7), Idx(path, 8) >>

\* The tags dictionary without the fallback of the email.
NewTags_NoSentinel(user_id, mail) ==
    { <<USER_ID_TAG_NAME, user_id>>, <<EMAIL_TAG_NAME, mail>> }

\* The tags dictionary assign_owner builds.
NewTags(user_id, mail) ==
    { <<USER_ID_TAG_NAME, user_id>>,
      <<EMAIL_TAG_NAME, IF Truthy(mail) THEN mail ELSE "ManagedIdentity">> }

\* The condition with "or" between the two key tests.
Condition_EitherMissing(A) ==
    IF A.k = "res" /\ ~TruthyD(A.tags) THEN "write"
    ELSE IF A.k = "none" THEN "raise"
    ELSE IF ~Has(A.tags.d, USER_ID_TAG_NAME) \/ ~Has(A.tags.d, EMAIL_TAG_NAME)
         THEN "write" ELSE "skip"

\* The condition as (not A or not A.tags) or ...: a missing resource is written to.
Condition_NoneWrites(A) ==
    IF A.k = "none" \/ ~TruthyD(A.tags) THEN "write"
    ELSE IF ~Has(A.tags.d, USER_ID_TAG_NAME) /\ ~Has(A.tags.d, EMAIL_TAG_NAME)
         THEN "write" ELSE "skip"

\* The condition without the test of the existing tags.
Condition_NoCheck(A) == IF A.k = "none" THEN "raise" ELSE "write"

\* The condition of lines 73-74, (A and not A.tags) or (both keys not in
\* A.tags): "write", "skip", or "raise" where A is None and A.tags is read.
Condition(A) ==
    IF A.k = "res" /\ ~TruthyD(A.tags) THEN "write"
    ELSE IF A.k = "none" THEN "raise"
    ELSE IF ~Has(A.tags.d, USER_ID_TAG_NAME) /\ ~Has(A.tags.d, EMAIL_TAG_NAME)
         THEN "write" ELSE "skip"

-----------------------------------------------------------------------------
(* The resource API *)

\* Messages of a NoRegisteredProviderFound error: a version list, a list
\* whose first entry is empty, and a message without the marker.
Messages ==
    { <<"No registered provider found.", VERSIONS_MARKER, "2020-06-01", ",", "2019-12-01",
        "'.">>,
      <<"No registered provider found.", VERSIONS_MARKER, ",", "2019-12-01", "'.">>,
      <<"No registered provider found.">> }

Response(kind, status, body, code, message) ==
    [kind |-> kind, status |-> status, body |-> body, code |-> code, message |-> message]

\* What resources.get can answer: the resource, an HttpResponseError (with a
\* JSON or a non-JSON body), or an exception that is no HttpResponseError.
OkResponse == Response("ok", 200, "json", "", <<>>)
ErrorResponses ==
    { Response("http", 400, "json", "NoRegisteredProviderFound", m) : m \in Messages }
    \cup { Response("http", 400, "json", "InvalidApiVersionParameter", <<>>),
           Response("http", 400, "text", "", <<>>),
           Response("http", 404, "json", "ResourceNotFound", <<>>),
           Response("other", 0, "text", "", <<>>) }
Responses == {OkResponse} \cup ErrorResponses

\* The resources of the subscription.
ResourceKeys == { ResourceKey(VmPath("VM1")), ResourceKey(VmPath("VM2")) }

\* Tags a resource may carry before any invocation.
InitTags ==
    { NoDict, Dict({}), Dict({<<"env", "prod">>}),
      Dict({<<USER_ID_TAG_NAME, "u0">>}),
      Dict({<<EMAIL_TAG_NAME, "z@x">>, <<"env", "prod">>}),
      Dict({<<USER_ID_TAG_NAME, "u0">>, <<EMAIL_TAG_NAME, "z@x">>}) }

\* What the cloud may hold before any invocation: VM1 with any of the tags,
\* VM2 without tags.
InitStores ==
    { [key \in ResourceKeys |-> IF key = ResourceKey(VmPath("VM1")) THEN t ELSE Dict({})] :
        t \in InitTags }

\* api_version if api_version else API_VERSION
RequestVersion(version) == IF TruthyS(version) THEN version.s ELSE API_VERSION

\* One pass through call_until_valid_api with parameter version, given the
\* answer of resources.get and the tags the cloud holds: "returned" with
\* the value returned, "raised", or "retry" with the version of the
\* recursive call.
call_until_valid_api(version, resp, tags) ==
    IF resp.kind = "ok"
    THEN [result |-> "returned", value |-> Resource(tags), version |-> version]
    ELSE IF resp.kind # "http"
    THEN [result |-> "raised", value |-> NoResource, version |-> version]
    ELSE IF TruthyS(version)
    THEN [result |-> "raised", value |-> NoResource, version |-> version]
    ELSE IF resp.status = 400
    THEN IF resp.body # "json"
         THEN [result |-> "raised", value |-> NoResource, version |-> version]
         ELSE IF resp.code = "NoRegisteredProviderFound"
         THEN IF VersionRaises(resp.message)
              THEN [result |-> "raised", value |-> NoResource, version |-> version]
              ELSE [result |-> "retry", value |-> NoResource,
                    version |-> Str(extract_version_from_error_message(resp.message))]
         ELSE [result |-> "returned", value |-> NoResource, version |-> version]
    ELSE [result |-> "returned", value |-> NoResource, version |-> version]

\* A write that leaves a resource alone once it carries an owner tag.
ApplyWrite_KeepOwner(st, scope, tags) ==
    IF Has(st[ResourceKey(scope)].d, USER_ID_TAG_NAME)
       \/ Has(st[ResourceKey(scope)].d, EMAIL_TAG_NAME)
    THEN st
    ELSE [st EXCEPT ![ResourceKey(scope)] = Dict(tags)]

\* tags.create_or_update_at_scope replaces the tags of the resource at scope.
ApplyWrite(st, scope, tags) == [st EXCEPT ![ResourceKey(scope)] = Dict(tags)]

-----------------------------------------------------------------------------
(* Actions *)

Init ==
    /\ pc = [p \in Procs |-> "idle"]
    /\ event = [p \in Procs |-> NoEvent]
    /\ id = [p \in Procs |-> None]
    /\ email = [p \in Procs |-> None]
    /\ resource = [p \in Procs |-> Unbound]
    /\ api_version = [p \in Procs |-> NoneS]
    /\ requests = [p \in Procs |-> <<>>]
    /\ azure_resource = [p \in Procs |-> NoResource]
    /\ callResult = [p \in Procs |-> "pending"]
    /\ written = [p \in Procs |-> <<>>]
    /\ outcome = [p \in Procs |-> "none"]
    /\ store \in InitStores
    /\ writeLog = <<>>
    /\ invocations = 0

\* How main runs from its entry to its first call of the resource API
\* (lines 12-25 and 57-70): where it stops and with which locals.
MainEntry(ev) ==
    LET m == extract_metadata(ev)
    IN  IF GetJsonRaises(ev) \/ m.raised
        THEN [pc |-> "done", outcome |-> ExceptOutcome(Unbound),
              id |-> None, email |-> None, resource |-> Unbound]
        ELSE LET stop(o) == [pc |-> "done", outcome |-> o,
                             id |-> m.id, email |-> m.email, resource |-> m.resource]
             IN  IF m.resource.k = "none" THEN stop(ExceptOutcome(m.resource))
                 ELSE IF IsIgnored(m.resource.s) THEN stop("ignored")
                 ELSE IF PathRaises(m.resource.s) THEN stop(ExceptOutcome(m.resource))
                 ELSE [pc |-> "lookup", outcome |-> "none",
                       id |-> m.id, email |-> m.email, resource |-> m.resource]

MainEntryOf == [ev \in Events |-> MainEntry(ev)]

\* The host invokes main with event ev in slot p.
Invoke(p, ev) ==
    /\ pc[p] \in {"idle", "done"}
    /\ invocations < MaxInvocations
    /\ invocations' = invocations + 1
    /\ LET e == MainEntryOf[ev]
       IN  /\ pc' = [pc EXCEPT ![p] = e.pc]
           /\ outcome' = [outcome EXCEPT ![p] = e.outcome]
           /\ id' = [id EXCEPT ![p] = e.id]
           /\ email' = [email EXCEPT ![p] = e.email]
           /\ resource' = [resource EXCEPT ![p] = e.resource]
    /\ event' = [event EXCEPT ![p] = ev]
    /\ api_version' = [api_version EXCEPT ![p] = NoneS]
    /\ requests' = [requests EXCEPT ![p] = <<>>]
    /\ azure_resource' = [azure_resource EXCEPT ![p] = NoResource]
    /\ callResult' = [callResult EXCEPT ![p] = "pending"]
    /\ written' = [written EXCEPT ![p] = <<>>]
    /\ UNCHANGED <<store, writeLog>>

\* One resources.get call of slot p, answered by resp, and what follows it
\* up to the next call of the resource API (lines 85-109 and 73-74).
Lookup(p, resp) ==
    /\ pc[p] = "lookup"
    /\ Len(requests[p]) < MaxLookups
    /\ requests' = [requests EXCEPT ![p] = Append(@, RequestVersion(api_version[p]))]
    /\ LET key == ResourceKey(resource[p].s)
           tags == IF key \in DOMAIN store THEN store[key] ELSE NoDict
           r == call_until_valid_api(api_version[p], resp, tags)
           c == Condition(r.value)
       IN  /\ resp.kind = "ok" => key \in DOMAIN store
           /\ api_version' = [api_version EXCEPT ![p] = r.version]
           /\ callResult' = [callResult EXCEPT ![p] =
                                IF r.result = "retry" THEN "pending" ELSE r.result]
           /\ azure_resource' = [azure_resource EXCEPT ![p] = r.value]
           /\ pc' = [pc EXCEPT ![p] =
                        IF r.result = "retry" THEN "lookup"
                        ELSE IF r.result = "returned" /\ c = "write" THEN "write"
                        ELSE "done"]
           /\ outcome' = [outcome EXCEPT ![p] =
                        IF r.result = "retry" THEN "none"
                        ELSE IF r.result = "raised" THEN ExceptOutcome(resource[p])
                        ELSE IF c = "write" THEN "none"
                        ELSE IF c = "skip" THEN "ok"
                        ELSE ExceptOutcome(resource[p])]
    /\ UNCHANGED <<event, id, email, resource, written, store, writeLog, invocations>>

\* The create_or_update_at_scope call of slot p (line 75); ok is whether the
\* cloud accepts it, and it raises otherwise.
Write(p, ok) ==
    /\ pc[p] = "write"
    /\ LET tags == NewTags(id[p], email[p])
           call == [scope |-> resource[p].s, tags |-> tags]
       IN  /\ written' = [written EXCEPT ![p] = Append(@, call)]
           /\ writeLog' = Append(writeLog, [p |-> p, key |-> ResourceKey(resource[p].s),
                                            tags |-> tags, ok |-> ok])
           /\ store' = IF ok THEN ApplyWrite(store, resource[p].s, tags) ELSE store
    /\ outcome' = [outcome EXCEPT ![p] = IF ok THEN "ok" ELSE ExceptOutcome(resource[p])]
    /\ pc' = [pc EXCEPT ![p] = "done"]
    /\ UNCHANGED <<event, id, email, resource, api_version, requests, azure_resource,
                   callResult, invocations>>

\* The host runs one invocation at a time, on any event.
Next ==
    \/ \E ev \in Events : Invoke(1, ev)
    \/ \E resp \in Responses : Lookup(1, resp)
    \/ \E ok \in BOOLEAN : Write(1, ok)

Spec == Init /\ [][Next]_vars

\* Concurrent invocations start from a resource that has no owner tags or both.
RaceInit ==
    /\ Init
    /\ store[ResourceKey(VmPath("VM1"))] \in
         { Dict({}), Dict({<<"env", "prod">>}),
           Dict({<<USER_ID_TAG_NAME, "u0">>, <<EMAIL_TAG_NAME, "z@x">>}) }

\* The answers of resources.get to concurrent invocations: the resource, a
\* provider error with a version list, a not-found error.
RaceResponses ==
    { resp \in Responses :
        \/ resp.kind = "ok"
        \/ resp.status = 404
        \/ resp.code = "NoRegisteredProviderFound" /\ ~VersionRaises(resp.message)
                /\ extract_version_from_error_message(resp.message) # <<>> }

\* The host runs invocations concurrently, on events about one resource.
RaceNext ==
    \/ \E p \in Procs : \E ev \in RaceEvents : Invoke(p, ev)
    \/ \E p \in Procs : \E resp \in RaceResponses : Lookup(p, resp)
    \/ \E p \in Procs : \E ok \in BOOLEAN : Write(p, ok)

RaceSpec == RaceInit /\ [][RaceNext]_vars

-----------------------------------------------------------------------------
(* Properties *)

\* What the event of slot p claims about the actor, read off the event.
IdClaimOf(p) ==
    IF event[p].hasClaims /\ Has(event[p].claims, ID_CLAIM_KEY)
    THEN Get(event[p].claims, ID_CLAIM_KEY) ELSE None
HasEmailClaim(p) == event[p].hasClaims /\ Has(event[p].claims, EMAIL_CLAIM_KEY)
EmailClaimOf(p) == Get(event[p].claims, EMAIL_CLAIM_KEY)

HasOwnerTag(t) == Has(t.d, "owner_id") \/ Has(t.d, "owner_email")

\* The lookup of slot p returned a resource, with or without owner tags.
FoundOwned(p) == azure_resource[p].k = "res" /\ HasOwnerTag(azure_resource[p].tags)
FoundUnowned(p) == azure_resource[p].k = "res" /\ ~HasOwnerTag(azure_resource[p].tags)

\* C1: an invocation whose lookup returned a resource whose tags contain
\* owner_id or owner_email makes no create_or_update_at_scope call.
C1_NoWriteWhenOwned == \A p \in Procs : FoundOwned(p) => written[p] = <<>>

C1_Witness ==
    /\ pc[1] = "done" /\ outcome[1] = "ok" /\ written[1] = <<>>
    /\ azure_resource[1].k = "res"
    /\ Has(azure_resource[1].tags.d, "owner_email")
    /\ ~Has(azure_resource[1].tags.d, "owner_id")
    /\ Has(azure_resource[1].tags.d, "env")

\* The write the claim C2 describes, with the given owner_email.
WroteOnce(p, owner_email) ==
    /\ Len(written[p]) = 1
    /\ written[p][1].scope = extract_resource_path(event[p].uri)
    /\ written[p][1].tags = { <<"owner_id", IdClaimOf(p)>>, <<"owner_email", owner_email>> }

\* C2 as stated: an invocation whose lookup returned a resource without owner
\* tags makes exactly one write, at the 9-segment path, of owner_id = the id
\* claim and owner_email = the email claim, or "ManagedIdentity" when the
\* email claim is absent.
C2_Original ==
    \A p \in Procs :
        pc[p] = "done" /\ FoundUnowned(p) =>
            WroteOnce(p, IF HasEmailClaim(p) THEN EmailClaimOf(p) ELSE "ManagedIdentity")

\* C2 amended: as C2, with owner_email = "ManagedIdentity" when the email
\* claim is absent or the empty string.
C2_WriteWhenUnowned ==
    \A p \in Procs :
        pc[p] = "done" /\ FoundUnowned(p) =>
            WroteOnce(p, IF HasEmailClaim(p) /\ EmailClaimOf(p) # ""
                         THEN EmailClaimOf(p) ELSE "ManagedIdentity")

C2_Witness ==
    /\ pc[1] = "done" /\ FoundUnowned(1) /\ Has(azure_resource[1].tags.d, "env")
    /\ event[1].uri = VmPath("VM1") \o <<"/", "extra">>
    /\ Len(written[1]) = 1
    /\ written[1][1].scope = VmPath("VM1")
    /\ written[1][1].tags = { <<"owner_id", "u1">>, <<"owner_email", "a@x">> }

\* C3: one invocation issues at most two lookup calls, whatever the API
\* answers and whatever version is parsed from the error message.
C3_AtMostTwoLookups == \A p \in Procs : Len(requests[p]) <= 2

\* C4: no exception escapes main, whichever step raises.
C4_NothingEscapes == \A p \in Procs : outcome[p] # "escaped"

\* C5: an invocation on an event whose resource path, cut to 9 segments,
\* contains Microsoft.Resources/deployments or Microsoft.Resources/tags ends
\* without a lookup call and without a tag write.
C5_IgnoredMakesNoCalls ==
    \A p \in Procs :
        ( /\ event[p].kind = "dict" /\ event[p].hasUri
          /\ \/ Contains(extract_resource_path(event[p].uri),
                         <<"Microsoft.Resources", "/", "deployments">>)
             \/ Contains(extract_resource_path(event[p].uri),
                         <<"Microsoft.Resources", "/", "tags">>) )
        => pc[p] = "done" /\ requests[p] = <<>> /\ written[p] = <<>>

C5_Witness ==
    /\ event[1].hasUri /\ event[1].uri = DeploymentPath
    /\ pc[1] = "done" /\ outcome[1] = "ignored"
    /\ requests[1] = <<>> /\ written[1] = <<>>

\* C6: on a JSON-object event, extract_metadata does not raise, and returns
\* None for the id and the email when claims or the claim key is absent, and
\* None for the resource path when resourceUri is absent.
C6_MissingKeysGiveNone ==
    \A p \in Procs :
        event[p].kind = "dict" =>
            /\ resource[p].k # "unbound"
            /\ ~event[p].hasClaims => id[p] = None /\ email[p] = None
            /\ ~Has(event[p].claims, ID_CLAIM_KEY) => id[p] = None
            /\ ~Has(event[p].claims, EMAIL_CLAIM_KEY) => email[p] = None
            /\ ~event[p].hasUri => resource[p] = NoneS

C6_Witness ==
    /\ event[1].kind = "dict" /\ event[1].hasClaims /\ ~event[1].hasUri
    /\ Has(event[1].claims, ID_CLAIM_KEY) /\ ~Has(event[1].claims, EMAIL_CLAIM_KEY)
    /\ id[1] = "u2" /\ email[1] = None /\ resource[1] = NoneS
    /\ pc[1] = "done" /\ outcome[1] = "caught"

\* C7: call_until_valid_api never returns normally without a resource.
C7_NeverReturnsNone ==
    \A p \in Procs : ~(callResult[p] = "returned" /\ azure_resource[p].k = "none")

\* The last two writes were made by the invocations now in slots p and q,
\* both after reading the resource without owner tags, and both were applied.
BothWrote(p, q) ==
    /\ p # q
    /\ FoundUnowned(p) /\ FoundUnowned(q)
    /\ written[p] # <<>> /\ written[q] # <<>>
    /\ Len(writeLog) >= 2
    /\ writeLog[Len(writeLog) - 1].p = p /\ writeLog[Len(writeLog) - 1].ok
    /\ writeLog[Len(writeLog)].p = q /\ writeLog[Len(writeLog)].ok

\* C8: when two concurrent invocations for the same resource both read it
\* without owner tags and both write, the resource ends with the owner tags
\* of the invocation that wrote last.
C8_LastWriteWins ==
    \A p, q \in Procs :
        BothWrote(p, q) =>
            store[ResourceKey(VmPath("VM1"))] =
                Dict({ <<"owner_id", IdClaimOf(q)>>,
                       <<"owner_email", IF HasEmailClaim(q) THEN EmailClaimOf(q)
                                        ELSE "ManagedIdentity">> })

C8_Witness ==
    /\ BothWrote(1, 2)
    /\ IdClaimOf(1) = "u1" /\ IdClaimOf(2) = "u2"
    /\ pc[1] = "done" /\ pc[2] = "done"
    /\ Get(store[ResourceKey(VmPath("VM1"))].d, "owner_id") = "u2"

\* C9 as stated: of the invocations for one resource that run one after
\* another, at most one makes a write call.
C9_Original ==
    \A i, j \in DOMAIN writeLog : i < j => writeLog[i].key # writeLog[j].key

\* C9 amended: once a write for a resource has been accepted, no later
\* invocation makes a write call for that resource, and the resource keeps
\* the tags of that write.
C9_Idempotent ==
    \A i \in DOMAIN writeLog :
        writeLog[i].ok =>
            /\ \A j \in DOMAIN writeLog : i < j => writeLog[j].key # writeLog[i].key
            /\ store[writeLog[i].key] = Dict(writeLog[i].tags)

C9_Witness ==
    /\ invocations = 2 /\ Len(writeLog) = 1 /\ writeLog[1].ok
    /\ writeLog[1].tags = { <<"owner_id", "u1">>, <<"owner_email", "a@x">> }
    /\ pc[1] = "done" /\ outcome[1] = "ok" /\ written[1] = <<>>
    /\ id[1] = "u2"
    /\ azure_resource[1] = Resource(Dict(writeLog[1].tags))
    /\ store[writeLog[1].key] = Dict(writeLog[1].tags)

\* C10: an invocation makes at most one tag write, and only after its
\* lookup returned a resource.
C10_WriteAfterLookup ==
    \A p \in Procs :
        /\ Len(written[p]) <= 1
        /\ (pc[p] = "write" \/ written[p] # <<>>) =>
              /\ requests[p] # <<>>
              /\ callResult[p] = "returned"
              /\ azure_resource[p].k = "res"

C10_Witness ==
    /\ Len(written[1]) = 1 /\ Len(requests[1]) = 2
    /\ requests[1][2] = <<"2020-06-01">>
    /\ callResult[1] = "returned" /\ azure_resource[1].k = "res"

====
